---- MODULE Spec2Model ----
(***************************************************************************)
(* Process-lifecycle and concurrency model of the Speak11 TTS daemon       *)
(* (src/tts_server.py).                                                    *)
(*                                                                         *)
(* Every daemon process has a main thread (main(), the accept loop and     *)
(* handle_client) and, once started, one watchdog thread.  Python runs     *)
(* signal handlers on the main thread, so handle_signal is a jump of the   *)
(* main thread into do_shutdown.  The filesystem (lock, PID file, socket   *)
(* path) is shared by all processes.                                       *)
(*                                                                         *)
(* Time is counted in whole time units (seconds).  elapsed[p] is           *)
(* time.time() - last_request_time of process p; it is kept up to          *)
(* IDLE_TIMEOUT, beyond which the code no longer distinguishes values.     *)
(* A watchdog thread that is able to run does so before the clock moves    *)
(* on (no scheduling slack); the main thread may take any time.            *)
(***************************************************************************)
EXTENDS Integers, FiniteSets, Sequences, TLC

\* ---------------------------------------------------------------- bounds
NumProcs == 2            \* daemon processes that exist at the same time

\* ------------------------------------------------------ program constants
IDLE_TIMEOUT == 2        \* SPEAK11_IDLE_TIMEOUT (env override of the 300 default)
IDLE_WAIT_CAP == 10      \* min(remaining + 0.5, 10)
PARENT_POLL == 2         \* shutdown_event.wait(2)
BACKLOG == 2             \* server_socket.listen(2)
INIT_PID == 1            \* parent_pid <= 1: reparented to init/launchd

Procs == 1..NumProcs
Threads == {"main", "wd"}
Triggers == {"signal", "idle", "parent", "loop"}

\* Parent ids a daemon observes: SupervisorPid while the process that started
\* it is alive, OrphanPpid once it has been reparented to init.
SupervisorPid == INIT_PID + 6
OrphanPpid == INIT_PID

VARIABLES
    pc,              \* pc[p][t]: position of thread t of process p
    model,           \* global model: "None" until load_tts_model has assigned it
    managed_mode,    \* "--managed" in sys.argv
    locked,          \* p holds the flock on LOCK_FILE
    handlers,        \* SIGTERM/SIGINT handlers installed
    shutdown_event,  \* threading.Event
    server_socket,   \* global server_socket: "None", "open", "bound", "listening", "closed"
    elapsed,         \* time.time() - last_request_time
    timer,           \* time left of the watchdog's shutdown_event.wait(..)
    ppid,            \* os.getppid()
    parent_pid,      \* parent_watchdog's recorded parent id (0: not recorded)
    sinceChange,     \* time units since ppid left the recorded parent_pid
    causes,          \* triggers that have invoked do_shutdown in p
    gens,            \* threads of p inside model.generate
    conns,           \* connections accepted by p and not yet closed
    backlog,         \* connections waiting in p's listen queue
    exitStatus,      \* how a process ended in the step just taken: "0", "1", "signal",
                     \* "killed"; "none" when the step ended no process
    pidFile,         \* PID_FILE: [exists, content]; content {} is an empty file
    sockFile,        \* SOCKET_PATH: <<>> absent, <<p>> bound by p, Stale
    request,         \* handle_client: what the read loop and the parse gave ("none": not read yet)
    sent,            \* handle_client: the responses passed to conn.sendall, in order
    stamps,          \* assignments to last_request_time for the connection being handled
    lastFailed,      \* the connection handled before this one did not end with an ok response
    sigPending,      \* a signal was received and handle_signal has not run yet
    tmpDirs          \* speak11_tts_* directories in the temp dir: "work", "out", "orphan"

procVars == <<pc, managed_mode, locked, handlers, shutdown_event,
              server_socket, elapsed, timer, ppid, parent_pid, sinceChange,
              causes, gens, conns, backlog, exitStatus>>
fsVars == <<pidFile, sockFile>>
reqVars == <<request, sent, stamps, lastFailed>>
vars == <<procVars, fsVars, reqVars, sigPending, tmpDirs, model>>

Absent == <<>>
Stale == <<0>>           \* left behind by a process that has ended
NoPidFile == [exists |-> FALSE, content |-> {}]

Min(a, b) == IF a <= b THEN a ELSE b
Max(a, b) == IF a >= b THEN a ELSE b

Alive(p) == pc[p]["main"] # "init"

Init ==
    /\ pc = [p \in Procs |-> [t \in Threads |-> IF t = "main" THEN "init" ELSE "none"]]
    /\ model = [p \in Procs |-> "None"]
    /\ managed_mode = [p \in Procs |-> FALSE]
    /\ locked = [p \in Procs |-> FALSE]
    /\ handlers = [p \in Procs |-> FALSE]
    /\ shutdown_event = [p \in Procs |-> FALSE]
    /\ server_socket = [p \in Procs |-> "None"]
    /\ elapsed = [p \in Procs |-> 0]
    /\ timer = [p \in Procs |-> 0]
    /\ ppid = [p \in Procs |-> 0]
    /\ parent_pid = [p \in Procs |-> 0]
    /\ sinceChange = [p \in Procs |-> 0]
    /\ causes = [p \in Procs |-> {}]
    /\ gens = [p \in Procs |-> {}]
    /\ conns = [p \in Procs |-> 0]
    /\ backlog = [p \in Procs |-> 0]
    /\ exitStatus = "none"
    /\ pidFile = NoPidFile
    /\ sockFile = Absent
    /\ request = [p \in Procs |-> "none"]
    /\ sent = [p \in Procs |-> <<>>]
    /\ stamps = [p \in Procs |-> 0]
    /\ lastFailed = [p \in Procs |-> FALSE]
    /\ sigPending = [p \in Procs |-> FALSE]
    /\ tmpDirs = {}

\* ------------------------------------------------------------ helpers

\* No process ends in this step.
NoExit == exitStatus' = "none"

\* Thread t of p moves to position v; nothing else of pc changes.
Goto(p, t, v) == pc' = [pc EXCEPT ![p][t] = v]

\* The process ends (os._exit, sys.exit, uncaught exception, death by signal):
\* every thread stops and the kernel closes its descriptors, which releases
\* the flock and drops the listen queue.  Files on disk stay as they are; what
\* the process left behind now belongs to no living process (Stale).  The
\* slot is free for the next process to be started.
LeftBehind(file, p) == IF file = <<p>> THEN Stale ELSE file
\* The work directory of a generation that the process did not finish stays
\* on disk; only the lock holder can have one.
Orphaned(dirs, p) ==
    IF locked[p] /\ "work" \in dirs THEN (dirs \ {"work"}) \cup {"orphan"} ELSE dirs
Terminate(p, status) ==
    /\ pc' = [pc EXCEPT ![p] = [t \in Threads |-> IF t = "main" THEN "init" ELSE "none"]]
    /\ locked' = [locked EXCEPT ![p] = FALSE]
    /\ handlers' = [handlers EXCEPT ![p] = FALSE]
    /\ shutdown_event' = [shutdown_event EXCEPT ![p] = FALSE]
    /\ server_socket' = [server_socket EXCEPT ![p] = "None"]
    /\ elapsed' = [elapsed EXCEPT ![p] = 0]
    /\ timer' = [timer EXCEPT ![p] = 0]
    /\ ppid' = [ppid EXCEPT ![p] = 0]
    /\ parent_pid' = [parent_pid EXCEPT ![p] = 0]
    /\ sinceChange' = [sinceChange EXCEPT ![p] = 0]
    /\ causes' = [causes EXCEPT ![p] = {}]
    /\ gens' = [gens EXCEPT ![p] = {}]
    /\ conns' = [conns EXCEPT ![p] = 0]
    /\ backlog' = [backlog EXCEPT ![p] = 0]
    /\ exitStatus' = status
    /\ managed_mode' = [managed_mode EXCEPT ![p] = FALSE]
    /\ sockFile' = LeftBehind(sockFile, p)
    /\ pidFile' = [pidFile EXCEPT !.content = IF @ = {p} THEN {0} ELSE @]
    /\ request' = [request EXCEPT ![p] = "none"]
    /\ sent' = [sent EXCEPT ![p] = <<>>]
    /\ stamps' = [stamps EXCEPT ![p] = 0]
    /\ lastFailed' = [lastFailed EXCEPT ![p] = FALSE]
    /\ sigPending' = [sigPending EXCEPT ![p] = FALSE]
    /\ tmpDirs' = Orphaned(tmpDirs, p)
    /\ model' = [model EXCEPT ![p] = "None"]

\* ------------------------------------------------- main(): startup

\* The process is launched: module globals are initialised (last_request_time
\* = time.time()), main() makes DATA_DIR and opens LOCK_FILE.
Start(p) ==
    /\ pc[p]["main"] = "init"
    /\ ppid' = [ppid EXCEPT ![p] = SupervisorPid]
    /\ Goto(p, "main", "flock")
    /\ UNCHANGED <<managed_mode, locked, handlers, shutdown_event, server_socket,
                   elapsed, timer, parent_pid, sinceChange, causes, gens, conns,
                   backlog, fsVars>>
    /\ UNCHANGED <<reqVars, sigPending, tmpDirs>>
    /\ UNCHANGED model
    /\ NoExit

\* Mutant of FlockGranted: a shared lock (LOCK_SH) is granted next to another.
FlockShared(p) == TRUE

\* fcntl.flock(lock_fd, LOCK_EX | LOCK_NB) is granted iff no other open file
\* description holds the lock.
FlockGranted(p) == \A q \in Procs \ {p} : ~locked[q]

\* Mutant of LockFailPc: the OSError is swallowed and main() carries on.
LockFailIgnored == "open_pid"

\* Where main() continues when flock raised OSError: sys.exit(0).
LockFailPc == "sys_exit"

\* managed_mode = "--managed" in sys.argv[1:] is an input that main() first
\* uses when it starts the watchdog; it is drawn once the process has the
\* lock, since a process that fails to get it never uses the value.
Flock(p) ==
    /\ pc[p]["main"] = "flock"
    /\ IF FlockGranted(p)
         THEN /\ locked' = [locked EXCEPT ![p] = TRUE]
              /\ \E m \in BOOLEAN : managed_mode' = [managed_mode EXCEPT ![p] = m]
              /\ Goto(p, "main", "open_pid")
         ELSE /\ Goto(p, "main", LockFailPc)
              /\ UNCHANGED <<locked, managed_mode>>
    /\ UNCHANGED <<handlers, shutdown_event, server_socket,
                   elapsed, timer, ppid, parent_pid, sinceChange, causes, gens,
                   conns, backlog, fsVars>>
    /\ UNCHANGED <<reqVars, sigPending, tmpDirs>>
    /\ UNCHANGED model
    /\ NoExit

SysExit(p) ==
    /\ pc[p]["main"] = "sys_exit"
    /\ Terminate(p, "0")

\* open(PID_FILE, "w") creates or truncates the file.
OpenPid(p) ==
    /\ pc[p]["main"] = "open_pid"
    /\ pidFile' = [exists |-> TRUE, content |-> {}]
    /\ Goto(p, "main", "write_pid")
    /\ UNCHANGED <<managed_mode, locked, handlers, shutdown_event,
                   server_socket, elapsed, timer, ppid, parent_pid, sinceChange,
                   causes, gens, conns, backlog, sockFile>>
    /\ UNCHANGED <<reqVars, sigPending, tmpDirs>>
    /\ UNCHANGED model
    /\ NoExit

\* f.write(str(os.getpid())) and the close at the end of the with block.  The
\* write goes through the descriptor, so it lands in the file only if the
\* path still names it.
WritePid(p) ==
    /\ pc[p]["main"] = "write_pid"
    /\ pidFile' = IF pidFile.exists THEN [exists |-> TRUE, content |-> {p}] ELSE pidFile
    /\ Goto(p, "main", "unlink_stale")
    /\ UNCHANGED <<managed_mode, locked, handlers, shutdown_event,
                   server_socket, elapsed, timer, ppid, parent_pid, sinceChange,
                   causes, gens, conns, backlog, sockFile>>
    /\ UNCHANGED <<reqVars, sigPending, tmpDirs>>
    /\ UNCHANGED model
    /\ NoExit

\* os.unlink(SOCKET_PATH), FileNotFoundError ignored.
UnlinkStale(p) ==
    /\ pc[p]["main"] = "unlink_stale"
    /\ sockFile' = Absent
    /\ Goto(p, "main", "purge")
    /\ UNCHANGED <<managed_mode, locked, handlers, shutdown_event,
                   server_socket, elapsed, timer, ppid, parent_pid, sinceChange,
                   causes, gens, conns, backlog, pidFile>>
    /\ UNCHANGED <<reqVars, sigPending, tmpDirs>>
    /\ UNCHANGED model
    /\ NoExit

\* for d in glob.glob(<tempdir>/speak11_tts_*): shutil.rmtree(d): every
\* directory that matches the pattern is removed, whoever it belongs to.
PurgeTmp(p) ==
    /\ pc[p]["main"] = "purge"
    /\ tmpDirs' = {}
    /\ Goto(p, "main", "install")
    /\ UNCHANGED <<managed_mode, locked, handlers, shutdown_event,
                   server_socket, elapsed, timer, ppid, parent_pid, sinceChange,
                   causes, gens, conns, backlog, fsVars>>
    /\ UNCHANGED <<reqVars, sigPending>>
    /\ UNCHANGED model
    /\ NoExit

\* signal.signal(SIGTERM, handle_signal); signal.signal(SIGINT, handle_signal)
InstallHandlers(p) ==
    /\ pc[p]["main"] = "install"
    /\ handlers' = [handlers EXCEPT ![p] = TRUE]
    /\ Goto(p, "main", "load")
    /\ UNCHANGED <<managed_mode, locked, shutdown_event, server_socket,
                   elapsed, timer, ppid, parent_pid, sinceChange, causes, gens,
                   conns, backlog, fsVars>>
    /\ UNCHANGED <<reqVars, sigPending, tmpDirs>>
    /\ UNCHANGED model
    /\ NoExit

\* Mutant of LoadFailPc: the exception is swallowed and main() carries on.
LoadFailIgnored == "warmup"

\* Where main() continues when load_tts_model() raised: nothing catches the
\* exception, it leaves main().
LoadFailPc == "load_raise"

\* load_tts_model(): returns, or raises.
LoadModel(p) ==
    /\ pc[p]["main"] = "load"
    /\ \E ok \in BOOLEAN :
          /\ model' = [model EXCEPT ![p] = IF ok THEN "loaded" ELSE @]
          /\ Goto(p, "main", IF ok THEN "warmup" ELSE LoadFailPc)
    /\ UNCHANGED <<managed_mode, locked, handlers, shutdown_event,
                   server_socket, elapsed, timer, ppid, parent_pid, sinceChange,
                   causes, gens, conns, backlog, fsVars>>
    /\ UNCHANGED <<reqVars, sigPending, tmpDirs>>
    /\ NoExit

\* warmup_pipeline(): model.generate is entered ...
WarmupBegin(p) ==
    /\ pc[p]["main"] = "warmup"
    /\ gens' = [gens EXCEPT ![p] = @ \cup {"main"}]
    /\ Goto(p, "main", "warmup_gen")
    /\ UNCHANGED <<managed_mode, locked, handlers, shutdown_event,
                   server_socket, elapsed, timer, ppid, parent_pid, sinceChange,
                   causes, conns, backlog, fsVars>>
    /\ UNCHANGED <<reqVars, sigPending, tmpDirs>>
    /\ UNCHANGED model
    /\ NoExit

\* ... and left, normally or by an exception that warmup_pipeline swallows.
WarmupEnd(p) ==
    /\ pc[p]["main"] = "warmup_gen"
    /\ gens' = [gens EXCEPT ![p] = @ \ {"main"}]
    /\ Goto(p, "main", "start_wd")
    /\ UNCHANGED <<managed_mode, locked, handlers, shutdown_event,
                   server_socket, elapsed, timer, ppid, parent_pid, sinceChange,
                   causes, conns, backlog, fsVars>>
    /\ UNCHANGED <<reqVars, sigPending, tmpDirs>>
    /\ UNCHANGED model
    /\ NoExit

\* Mutant of WatchdogTarget: the two branches are swapped.
WatchdogTargetSwapped(managed) == IF managed THEN "iw_loop" ELSE "pw_start"

\* The thread target chosen at "Start watchdog".
WatchdogTarget(managed) == IF managed THEN "pw_start" ELSE "iw_loop"

StartWatchdog(p) ==
    /\ pc[p]["main"] = "start_wd"
    /\ pc' = [pc EXCEPT ![p] = [main |-> "mk_socket", wd |-> WatchdogTarget(managed_mode[p])]]
    /\ UNCHANGED <<managed_mode, locked, handlers, shutdown_event,
                   server_socket, elapsed, timer, ppid, parent_pid, sinceChange,
                   causes, gens, conns, backlog, fsVars>>
    /\ UNCHANGED <<reqVars, sigPending, tmpDirs>>
    /\ UNCHANGED model
    /\ NoExit

\* server_socket = socket.socket(AF_UNIX, SOCK_STREAM)
MakeSocket(p) ==
    /\ pc[p]["main"] = "mk_socket"
    /\ server_socket' = [server_socket EXCEPT ![p] = "open"]
    /\ Goto(p, "main", "bind")
    /\ UNCHANGED <<managed_mode, locked, handlers, shutdown_event,
                   elapsed, timer, ppid, parent_pid, sinceChange, causes, gens,
                   conns, backlog, fsVars>>
    /\ UNCHANGED <<reqVars, sigPending, tmpDirs>>
    /\ UNCHANGED model
    /\ NoExit

\* server_socket.bind(SOCKET_PATH): creates the socket file; OSError on a
\* closed socket (EBADF) or an existing path (EADDRINUSE) leaves main().
Bind(p) ==
    /\ pc[p]["main"] = "bind"
    /\ IF server_socket[p] = "open" /\ sockFile = Absent
         THEN /\ sockFile' = <<p>>
              /\ server_socket' = [server_socket EXCEPT ![p] = "bound"]
              /\ Goto(p, "main", "listen")
         ELSE /\ Goto(p, "main", "raise")
              /\ UNCHANGED <<sockFile, server_socket>>
    /\ UNCHANGED <<managed_mode, locked, handlers, shutdown_event,
                   elapsed, timer, ppid, parent_pid, sinceChange, causes, gens,
                   conns, backlog, pidFile>>
    /\ UNCHANGED <<reqVars, sigPending, tmpDirs>>
    /\ UNCHANGED model
    /\ NoExit

\* server_socket.listen(2); server_socket.settimeout(5)
Listen(p) ==
    /\ pc[p]["main"] = "listen"
    /\ IF server_socket[p] = "bound"
         THEN /\ server_socket' = [server_socket EXCEPT ![p] = "listening"]
              /\ Goto(p, "main", "loop")
         ELSE /\ Goto(p, "main", "raise")
              /\ UNCHANGED server_socket
    /\ UNCHANGED <<managed_mode, locked, handlers, shutdown_event,
                   elapsed, timer, ppid, parent_pid, sinceChange, causes, gens,
                   conns, backlog, fsVars>>
    /\ UNCHANGED <<reqVars, sigPending, tmpDirs>>
    /\ UNCHANGED model
    /\ NoExit

\* An exception left main(): the interpreter exits with status 1; the daemon
\* watchdog thread is stopped wherever it is.
UncaughtExit(p) ==
    /\ pc[p]["main"] \in {"raise", "load_raise"}
    /\ Terminate(p, "1")

\* ------------------------------------------------- main(): accept loop

\* while not shutdown_event.is_set()
LoopTest(p) ==
    /\ pc[p]["main"] = "loop"
    /\ Goto(p, "main", IF shutdown_event[p] THEN "final" ELSE "accept")
    /\ UNCHANGED <<managed_mode, locked, handlers, shutdown_event,
                   server_socket, elapsed, timer, ppid, parent_pid, sinceChange,
                   causes, gens, conns, backlog, fsVars>>
    /\ UNCHANGED <<reqVars, sigPending, tmpDirs>>
    /\ UNCHANGED model
    /\ NoExit

\* Mutant of AfterAccept: the connection is left aside and the loop goes on.
AfterAcceptNoHandler == "loop"

\* Where the main thread continues once accept() has returned a connection:
\* handle_client(conn), whose first statement stamps last_request_time.
AfterAccept == "hc_stamp"

\* conn, _ = server_socket.accept() returns a queued connection.
Accept(p) ==
    /\ pc[p]["main"] = "accept"
    /\ server_socket[p] = "listening"
    /\ backlog[p] > 0
    /\ backlog' = [backlog EXCEPT ![p] = @ - 1]
    /\ conns' = [conns EXCEPT ![p] = @ + 1]
    /\ Goto(p, "main", AfterAccept)
    /\ UNCHANGED <<managed_mode, locked, handlers, shutdown_event,
                   server_socket, elapsed, timer, ppid, parent_pid, sinceChange,
                   causes, gens, fsVars>>
    /\ UNCHANGED <<reqVars, sigPending, tmpDirs>>
    /\ UNCHANGED model
    /\ NoExit

\* except socket.timeout: continue (no connection within the accept wait)
AcceptTimeout(p) ==
    /\ pc[p]["main"] = "accept"
    /\ server_socket[p] = "listening"
    /\ backlog[p] = 0
    /\ Goto(p, "main", "loop")
    /\ UNCHANGED <<managed_mode, locked, handlers, shutdown_event,
                   server_socket, elapsed, timer, ppid, parent_pid, sinceChange,
                   causes, gens, conns, backlog, fsVars>>
    /\ UNCHANGED <<reqVars, sigPending, tmpDirs>>
    /\ UNCHANGED model
    /\ NoExit

\* except OSError: ... break (accept on a socket do_shutdown has closed)
AcceptError(p) ==
    /\ pc[p]["main"] = "accept"
    /\ server_socket[p] = "closed"
    /\ Goto(p, "main", "final")
    /\ UNCHANGED <<managed_mode, locked, handlers, shutdown_event,
                   server_socket, elapsed, timer, ppid, parent_pid, sinceChange,
                   causes, gens, conns, backlog, fsVars>>
    /\ UNCHANGED <<reqVars, sigPending, tmpDirs>>
    /\ UNCHANGED model
    /\ NoExit

\* do_shutdown() at the end of main()
Final(p) ==
    /\ pc[p]["main"] = "final"
    /\ causes' = [causes EXCEPT ![p] = @ \cup {"loop"}]
    /\ Goto(p, "main", "sd_set")
    /\ UNCHANGED <<managed_mode, locked, handlers, shutdown_event,
                   server_socket, elapsed, timer, ppid, parent_pid, sinceChange,
                   gens, conns, backlog, fsVars>>
    /\ request' = [request EXCEPT ![p] = "none"]
    /\ sent' = [sent EXCEPT ![p] = <<>>]
    /\ stamps' = [stamps EXCEPT ![p] = 0]
    /\ lastFailed' = [lastFailed EXCEPT ![p] = FALSE]
    /\ UNCHANGED <<sigPending, tmpDirs>>
    /\ UNCHANGED model
    /\ NoExit

\* ------------------------------------------------------ handle_client

\* last_request_time = time.time()
HcStamp(p) ==
    /\ pc[p]["main"] = "hc_stamp"
    /\ elapsed' = [elapsed EXCEPT ![p] = 0]
    /\ Goto(p, "main", "hc_recv")
    /\ UNCHANGED <<managed_mode, locked, handlers, shutdown_event,
                   server_socket, timer, ppid, parent_pid, sinceChange, causes,
                   gens, conns, backlog, fsVars>>
    /\ stamps' = [stamps EXCEPT ![p] = @ + 1]
    /\ UNCHANGED <<request, sent, lastFailed, sigPending, tmpDirs>>
    /\ UNCHANGED model
    /\ NoExit

\* What the read loop and the parse make of the peer's bytes: "timeout" (recv
\* raised socket.timeout), "empty" (the peer closed without sending data),
\* "malformed" (json.loads raised, or the value has no .get), "request".
RecvOutcomes == {"timeout", "empty", "malformed", "request"}

\* Mutant of AfterRecv: the exception is not caught in handle_client and
\* ends the accept loop.
AfterRecvPropagates(o) ==
    CASE o = "empty" -> "hc_close"
      [] o = "request" -> "hc_generate"
      [] OTHER -> "final"

AfterRecv(o) ==
    CASE o = "empty" -> "hc_close"
      [] o = "request" -> "hc_generate"
      [] OTHER -> "hc_error"

HcRecv(p) ==
    /\ pc[p]["main"] = "hc_recv"
    /\ \E o \in RecvOutcomes :
          /\ request' = [request EXCEPT ![p] = o]
          /\ Goto(p, "main", AfterRecv(o))
    /\ UNCHANGED <<managed_mode, locked, handlers, shutdown_event,
                   server_socket, elapsed, timer, ppid, parent_pid, sinceChange,
                   causes, gens, conns, backlog, fsVars>>
    /\ UNCHANGED <<sent, stamps, lastFailed, sigPending, tmpDirs>>
    /\ UNCHANGED model
    /\ NoExit

\* generate_audio(...) enters model.generate ...
HcGenerateBegin(p) ==
    /\ pc[p]["main"] = "hc_generate"
    /\ gens' = [gens EXCEPT ![p] = @ \cup {"main"}]
    /\ Goto(p, "main", "hc_gen")
    /\ UNCHANGED <<managed_mode, locked, handlers, shutdown_event,
                   server_socket, elapsed, timer, ppid, parent_pid, sinceChange,
                   causes, conns, backlog, fsVars>>
    /\ tmpDirs' = tmpDirs \cup {"work"}
    /\ UNCHANGED <<reqVars, sigPending>>
    /\ UNCHANGED model
    /\ NoExit

\* ... and returns the path, or raises.
HcGenerateEnd(p) ==
    /\ pc[p]["main"] = "hc_gen"
    /\ gens' = [gens EXCEPT ![p] = @ \ {"main"}]
    /\ \E ok \in BOOLEAN :
          /\ tmpDirs' = IF ok THEN (tmpDirs \ {"work"}) \cup {"out"} ELSE tmpDirs \ {"work"}
          /\ Goto(p, "main", IF ok THEN "hc_send" ELSE "hc_error")
    /\ UNCHANGED <<managed_mode, locked, handlers, shutdown_event,
                   server_socket, elapsed, timer, ppid, parent_pid, sinceChange,
                   causes, conns, backlog, fsVars>>
    /\ UNCHANGED <<reqVars, sigPending>>
    /\ UNCHANGED model
    /\ NoExit

\* model.generate blocks inside native code and never returns to the
\* interpreter.
GenHang(p) ==
    /\ pc[p]["main"] = "hc_gen"
    /\ Goto(p, "main", "hc_hung")
    /\ UNCHANGED <<managed_mode, locked, handlers, shutdown_event,
                   server_socket, elapsed, timer, ppid, parent_pid, sinceChange,
                   causes, gens, conns, backlog, fsVars>>
    /\ UNCHANGED <<reqVars, sigPending, tmpDirs>>
    /\ UNCHANGED model
    /\ NoExit

\* conn.sendall(ok response); an OSError is an Exception and is caught below.
HcSend(p) ==
    /\ pc[p]["main"] = "hc_send"
    /\ \E ok \in BOOLEAN : Goto(p, "main", IF ok THEN "hc_close" ELSE "hc_error")
    /\ UNCHANGED <<managed_mode, locked, handlers, shutdown_event,
                   server_socket, elapsed, timer, ppid, parent_pid, sinceChange,
                   causes, gens, conns, backlog, fsVars>>
    /\ sent' = [sent EXCEPT ![p] = Append(@, "ok")]
    /\ UNCHANGED <<request, stamps, lastFailed, sigPending, tmpDirs>>
    /\ UNCHANGED model
    /\ NoExit

\* except Exception: conn.sendall(error response), OSError swallowed.
HcError(p) ==
    /\ pc[p]["main"] = "hc_error"
    /\ Goto(p, "main", "hc_close")
    /\ UNCHANGED <<managed_mode, locked, handlers, shutdown_event,
                   server_socket, elapsed, timer, ppid, parent_pid, sinceChange,
                   causes, gens, conns, backlog, fsVars>>
    /\ sent' = [sent EXCEPT ![p] = Append(@, "error")]
    /\ UNCHANGED <<request, stamps, lastFailed, sigPending, tmpDirs>>
    /\ UNCHANGED model
    /\ NoExit

\* finally: conn.close(); handle_client returns to the accept loop.
HcClose(p) ==
    /\ pc[p]["main"] = "hc_close"
    /\ conns' = [conns EXCEPT ![p] = @ - 1]
    /\ Goto(p, "main", "loop")
    /\ UNCHANGED <<managed_mode, locked, handlers, shutdown_event,
                   server_socket, elapsed, timer, ppid, parent_pid, sinceChange,
                   causes, gens, backlog, fsVars>>
    /\ lastFailed' = [lastFailed EXCEPT ![p] = sent[p] # <<"ok">>]
    /\ request' = [request EXCEPT ![p] = "none"]
    /\ sent' = [sent EXCEPT ![p] = <<>>]
    /\ stamps' = [stamps EXCEPT ![p] = 0]
    /\ UNCHANGED <<sigPending, tmpDirs>>
    /\ UNCHANGED model
    /\ NoExit

\* --------------------------------------------------------- do_shutdown
\* Executed by thread t of p, one statement at a time.

\* shutdown_event.set()
SdSet(p, t) ==
    /\ pc[p][t] = "sd_set"
    /\ shutdown_event' = [shutdown_event EXCEPT ![p] = TRUE]
    /\ Goto(p, t, "sd_close")
    /\ UNCHANGED <<managed_mode, locked, handlers, server_socket,
                   elapsed, timer, ppid, parent_pid, sinceChange, causes, gens,
                   conns, backlog, fsVars>>
    /\ UNCHANGED <<reqVars, sigPending, tmpDirs>>
    /\ UNCHANGED model
    /\ NoExit

\* if server_socket is not None: server_socket.close()
SdClose(p, t) ==
    /\ pc[p][t] = "sd_close"
    /\ IF server_socket[p] # "None"
         THEN /\ server_socket' = [server_socket EXCEPT ![p] = "closed"]
              /\ backlog' = [backlog EXCEPT ![p] = 0]
         ELSE UNCHANGED <<server_socket, backlog>>
    /\ Goto(p, t, "sd_unlink_sock")
    /\ UNCHANGED <<managed_mode, locked, handlers, shutdown_event,
                   elapsed, timer, ppid, parent_pid, sinceChange, causes, gens,
                   conns, fsVars>>
    /\ UNCHANGED <<reqVars, sigPending, tmpDirs>>
    /\ UNCHANGED model
    /\ NoExit

\* os.unlink(SOCKET_PATH), FileNotFoundError ignored
SdUnlinkSocket(p, t) ==
    /\ pc[p][t] = "sd_unlink_sock"
    /\ sockFile' = Absent
    /\ Goto(p, t, "sd_unlink_pid")
    /\ UNCHANGED <<managed_mode, locked, handlers, shutdown_event,
                   server_socket, elapsed, timer, ppid, parent_pid, sinceChange,
                   causes, gens, conns, backlog, pidFile>>
    /\ UNCHANGED <<reqVars, sigPending, tmpDirs>>
    /\ UNCHANGED model
    /\ NoExit

\* os.unlink(PID_FILE), FileNotFoundError ignored
SdUnlinkPid(p, t) ==
    /\ pc[p][t] = "sd_unlink_pid"
    /\ pidFile' = NoPidFile
    /\ Goto(p, t, "sd_exit")
    /\ UNCHANGED <<managed_mode, locked, handlers, shutdown_event,
                   server_socket, elapsed, timer, ppid, parent_pid, sinceChange,
                   causes, gens, conns, backlog, sockFile>>
    /\ UNCHANGED <<reqVars, sigPending, tmpDirs>>
    /\ UNCHANGED model
    /\ NoExit

\* os._exit(0)
SdExit(p, t) ==
    /\ pc[p][t] = "sd_exit"
    /\ Terminate(p, "0")

\* ------------------------------------------------------------- signals

\* SIGTERM or SIGINT arrives before main() installed handle_signal: the
\* default disposition ends the process (SIGTERM kills it, SIGINT raises
\* KeyboardInterrupt) and no cleanup runs.
DefaultSignal(p) ==
    /\ Alive(p)
    /\ ~handlers[p]
    /\ Terminate(p, "signal")

\* SIGTERM or SIGINT arrives with the handlers installed: handle_signal runs
\* on the main thread between two bytecodes, whatever Python code it was
\* running, and calls do_shutdown, which does not return: a handle_client
\* that was interrupted is never resumed, its locals are dead.  A further
\* signal would enter do_shutdown once more at its first statement, inside
\* the first handler; one handled signal per process is modelled.
HandleSignal(p) ==
    /\ Alive(p)
    /\ handlers[p]
    /\ "signal" \notin causes[p]
    /\ pc[p]["main"] \notin {"raise", "load_raise", "sd_set", "hc_hung"}
    /\ causes' = [causes EXCEPT ![p] = @ \cup {"signal"}]
    /\ Goto(p, "main", "sd_set")
    /\ UNCHANGED <<managed_mode, locked, handlers, shutdown_event, server_socket,
                   elapsed, timer, ppid, parent_pid, sinceChange, gens, conns,
                   backlog, fsVars>>
    /\ request' = [request EXCEPT ![p] = "none"]
    /\ sent' = [sent EXCEPT ![p] = <<>>]
    /\ stamps' = [stamps EXCEPT ![p] = 0]
    /\ lastFailed' = [lastFailed EXCEPT ![p] = FALSE]
    /\ UNCHANGED <<sigPending, tmpDirs>>
    /\ UNCHANGED model
    /\ NoExit

\* SIGTERM or SIGINT arrives while the main thread is inside a native call
\* that does not return: the interpreter notes the signal, and handle_signal
\* is run by the main thread once it executes bytecode again.
SignalBlocked(p) ==
    /\ handlers[p]
    /\ pc[p]["main"] = "hc_hung"
    /\ ~sigPending[p]
    /\ sigPending' = [sigPending EXCEPT ![p] = TRUE]
    /\ UNCHANGED <<pc, managed_mode, locked, handlers, shutdown_event, server_socket,
                   elapsed, timer, ppid, parent_pid, sinceChange, causes, gens,
                   conns, backlog, fsVars>>
    /\ UNCHANGED <<reqVars, tmpDirs>>
    /\ UNCHANGED model
    /\ NoExit

\* SIGKILL or a crash: the process is gone, its files stay.
Kill(p) ==
    /\ Alive(p)
    /\ Terminate(p, "killed")

\* ------------------------------------------------------- idle_watchdog

\* Mutant of Remaining: the sign of the elapsed time is flipped.
RemainingSignFlipped(e) == IDLE_TIMEOUT + e

\* remaining = IDLE_TIMEOUT - (time.time() - last_request_time)
Remaining(e) == IDLE_TIMEOUT - e

\* if remaining <= 0
IdleExpired(e) == Remaining(e) <= 0

\* min(remaining + 0.5, 10): the clock is read at whole time units, so the
\* wait ends at the first whole unit that is not before its end.
IdleWait(e) == Min(Remaining(e) + 1, IDLE_WAIT_CAP)

\* while not shutdown_event.is_set()
IdleLoopTest(p) ==
    /\ pc[p]["wd"] = "iw_loop"
    /\ Goto(p, "wd", IF shutdown_event[p] THEN "done" ELSE "iw_check")
    /\ UNCHANGED <<managed_mode, locked, handlers, shutdown_event,
                   server_socket, elapsed, timer, ppid, parent_pid, sinceChange,
                   causes, gens, conns, backlog, fsVars>>
    /\ UNCHANGED <<reqVars, sigPending, tmpDirs>>
    /\ UNCHANGED model
    /\ NoExit

\* remaining is computed and tested; do_shutdown() is called, or the thread
\* goes to sleep in shutdown_event.wait(..).
IdleCheck(p) ==
    /\ pc[p]["wd"] = "iw_check"
    /\ IF IdleExpired(elapsed[p])
         THEN /\ causes' = [causes EXCEPT ![p] = @ \cup {"idle"}]
              /\ Goto(p, "wd", "sd_set")
              /\ UNCHANGED timer
         ELSE /\ timer' = [timer EXCEPT ![p] = IdleWait(elapsed[p])]
              /\ Goto(p, "wd", "iw_wait")
              /\ UNCHANGED causes
    /\ UNCHANGED <<managed_mode, locked, handlers, shutdown_event,
                   server_socket, elapsed, ppid, parent_pid, sinceChange, gens,
                   conns, backlog, fsVars>>
    /\ UNCHANGED <<reqVars, sigPending, tmpDirs>>
    /\ UNCHANGED model
    /\ NoExit

\* shutdown_event.wait(..) returns: the event is set or the time is up.
IdleWake(p) ==
    /\ pc[p]["wd"] = "iw_wait"
    /\ shutdown_event[p] \/ timer[p] = 0
    /\ timer' = [timer EXCEPT ![p] = 0]
    /\ Goto(p, "wd", "iw_loop")
    /\ UNCHANGED <<managed_mode, locked, handlers, shutdown_event,
                   server_socket, elapsed, ppid, parent_pid, sinceChange, causes,
                   gens, conns, backlog, fsVars>>
    /\ UNCHANGED <<reqVars, sigPending, tmpDirs>>
    /\ UNCHANGED model
    /\ NoExit

\* ----------------------------------------------------- parent_watchdog

\* Mutant of OrphanedAtStart: "<" for "<=".
OrphanedAtStartStrict(pp) == pp < INIT_PID

\* if parent_pid <= 1
OrphanedAtStart(pp) == pp <= INIT_PID

\* if os.getppid() != parent_pid
ParentChanged(p) == ppid[p] # parent_pid[p]

\* parent_pid = os.getppid(); already orphaned: do_shutdown()
ParentStart(p) ==
    /\ pc[p]["wd"] = "pw_start"
    /\ parent_pid' = [parent_pid EXCEPT ![p] = ppid[p]]
    /\ IF OrphanedAtStart(ppid[p])
         THEN /\ causes' = [causes EXCEPT ![p] = @ \cup {"parent"}]
              /\ Goto(p, "wd", "sd_set")
         ELSE /\ Goto(p, "wd", "pw_loop")
              /\ UNCHANGED causes
    /\ UNCHANGED <<managed_mode, locked, handlers, shutdown_event,
                   server_socket, elapsed, timer, ppid, sinceChange, gens, conns,
                   backlog, fsVars>>
    /\ UNCHANGED <<reqVars, sigPending, tmpDirs>>
    /\ UNCHANGED model
    /\ NoExit

\* while not shutdown_event.is_set()
ParentLoopTest(p) ==
    /\ pc[p]["wd"] = "pw_loop"
    /\ Goto(p, "wd", IF shutdown_event[p] THEN "done" ELSE "pw_check")
    /\ UNCHANGED <<managed_mode, locked, handlers, shutdown_event,
                   server_socket, elapsed, timer, ppid, parent_pid, sinceChange,
                   causes, gens, conns, backlog, fsVars>>
    /\ UNCHANGED <<reqVars, sigPending, tmpDirs>>
    /\ UNCHANGED model
    /\ NoExit

\* the parent id is compared; do_shutdown(), or shutdown_event.wait(2)
ParentCheck(p) ==
    /\ pc[p]["wd"] = "pw_check"
    /\ IF ParentChanged(p)
         THEN /\ causes' = [causes EXCEPT ![p] = @ \cup {"parent"}]
              /\ Goto(p, "wd", "sd_set")
              /\ UNCHANGED timer
         ELSE /\ timer' = [timer EXCEPT ![p] = PARENT_POLL]
              /\ Goto(p, "wd", "pw_wait")
              /\ UNCHANGED causes
    /\ UNCHANGED <<managed_mode, locked, handlers, shutdown_event,
                   server_socket, elapsed, ppid, parent_pid, sinceChange, gens,
                   conns, backlog, fsVars>>
    /\ UNCHANGED <<reqVars, sigPending, tmpDirs>>
    /\ UNCHANGED model
    /\ NoExit

ParentWake(p) ==
    /\ pc[p]["wd"] = "pw_wait"
    /\ shutdown_event[p] \/ timer[p] = 0
    /\ timer' = [timer EXCEPT ![p] = 0]
    /\ Goto(p, "wd", "pw_loop")
    /\ UNCHANGED <<managed_mode, locked, handlers, shutdown_event,
                   server_socket, elapsed, ppid, parent_pid, sinceChange, causes,
                   gens, conns, backlog, fsVars>>
    /\ UNCHANGED <<reqVars, sigPending, tmpDirs>>
    /\ UNCHANGED model
    /\ NoExit

\* --------------------------------------------------------- environment

\* The supervising process dies; the daemon is reparented to init.  As with
\* the clock, a death before flock is counted right after it.
ParentDies(p) ==
    /\ locked[p]
    /\ ppid[p] = SupervisorPid
    /\ ppid' = [ppid EXCEPT ![p] = OrphanPpid]
    /\ UNCHANGED <<pc, managed_mode, locked, handlers, shutdown_event,
                   server_socket, elapsed, timer, parent_pid, sinceChange, causes,
                   gens, conns, backlog, fsVars>>
    /\ UNCHANGED <<reqVars, sigPending, tmpDirs>>
    /\ UNCHANGED model
    /\ NoExit

\* A client connects to SOCKET_PATH and waits in the listen queue.
ClientConnect(p) ==
    /\ server_socket[p] = "listening"
    /\ sockFile = <<p>>
    /\ backlog[p] < BACKLOG
    /\ backlog' = [backlog EXCEPT ![p] = @ + 1]
    /\ UNCHANGED <<pc, managed_mode, locked, handlers, shutdown_event,
                   server_socket, elapsed, timer, ppid, parent_pid, sinceChange,
                   causes, gens, conns, fsVars>>
    /\ UNCHANGED <<reqVars, sigPending, tmpDirs>>
    /\ UNCHANGED model
    /\ NoExit

\* The client that was sent an ok response takes its audio file away.
CallerTakes ==
    /\ "out" \in tmpDirs
    /\ tmpDirs' = tmpDirs \ {"out"}
    /\ UNCHANGED <<pc, managed_mode, locked, handlers, shutdown_event,
                   server_socket, elapsed, timer, ppid, parent_pid, sinceChange,
                   causes, gens, conns, backlog, fsVars>>
    /\ UNCHANGED <<reqVars, sigPending>>
    /\ UNCHANGED model
    /\ NoExit

\* A watchdog thread that can take a step now.
WdRunnable(p) ==
    \/ pc[p]["wd"] \notin {"none", "done", "iw_wait", "pw_wait"}
    \/ /\ pc[p]["wd"] \in {"iw_wait", "pw_wait"}
       /\ shutdown_event[p] \/ timer[p] = 0

\* A thread of p is inside do_shutdown.
SdPcs == {"sd_set", "sd_close", "sd_unlink_sock", "sd_unlink_pid", "sd_exit"}
InShutdown(p, t) == pc[p][t] \in SdPcs

\* One time unit passes.  The watchdog's steps take no time on this scale.
\* A process that has not passed flock reads no clock before it does, so the
\* time it spent until then is counted after it.
Tick ==
    /\ \E p \in Procs : locked[p]
    /\ \A p \in Procs : ~WdRunnable(p)
    /\ elapsed' = [p \in Procs |->
                     IF locked[p] THEN Min(elapsed[p] + 1, IDLE_TIMEOUT) ELSE elapsed[p]]
    /\ timer' = [p \in Procs |-> Max(timer[p] - 1, 0)]
    /\ sinceChange' = [p \in Procs |->
                     IF parent_pid[p] # 0 /\ ParentChanged(p)
                       THEN Min(sinceChange[p] + 1, PARENT_POLL + 1)
                       ELSE sinceChange[p]]
    /\ UNCHANGED <<pc, managed_mode, locked, handlers, shutdown_event,
                   server_socket, ppid, parent_pid, causes, gens, conns, backlog,
                   fsVars>>
    /\ UNCHANGED <<reqVars, sigPending, tmpDirs>>
    /\ UNCHANGED model
    /\ NoExit

\* ------------------------------------------------------- specification

StartupStep(p) ==
    \/ Start(p) \/ Flock(p) \/ OpenPid(p) \/ WritePid(p)
    \/ UnlinkStale(p) \/ PurgeTmp(p) \/ InstallHandlers(p) \/ LoadModel(p)
    \/ WarmupBegin(p) \/ WarmupEnd(p) \/ StartWatchdog(p)
    \/ MakeSocket(p) \/ Bind(p) \/ Listen(p) \/ UncaughtExit(p)

ServeStep(p) ==
    \/ LoopTest(p) \/ Accept(p) \/ AcceptTimeout(p) \/ AcceptError(p) \/ Final(p)
    \/ HcStamp(p) \/ HcRecv(p) \/ HcGenerateBegin(p) \/ HcGenerateEnd(p) \/ GenHang(p)
    \/ HcSend(p) \/ HcError(p) \/ HcClose(p)

ShutdownStep(p, t) ==
    \/ SdSet(p, t) \/ SdClose(p, t) \/ SdUnlinkSocket(p, t)
    \/ SdUnlinkPid(p, t) \/ SdExit(p, t)

WatchdogStep(p) ==
    \/ IdleLoopTest(p) \/ IdleCheck(p) \/ IdleWake(p)
    \/ ParentStart(p) \/ ParentLoopTest(p) \/ ParentCheck(p) \/ ParentWake(p)
    \/ ShutdownStep(p, "wd")

EnvStep(p) ==
    \/ DefaultSignal(p) \/ HandleSignal(p) \/ SignalBlocked(p) \/ Kill(p)
    \/ ParentDies(p) \/ ClientConnect(p)

\* Any number of daemon processes, started, signalled and killed at any time.
Next ==
    \/ \E p \in Procs : StartupStep(p) \/ SysExit(p)
    \/ \E p \in Procs : ServeStep(p) \/ ShutdownStep(p, "main")
    \/ \E p \in Procs : WatchdogStep(p)
    \/ \E p \in Procs : EnvStep(p)
    \/ CallerTakes
    \/ Tick

Spec == Init /\ [][Next]_vars

\* One daemon process at a time, with the clock running and the watchdog
\* thread scheduled fairly: a watchdog step that stays possible is taken.
LiveNext ==
    \/ StartupStep(1) \/ ServeStep(1) \/ ShutdownStep(1, "main")
    \/ WatchdogStep(1) \/ EnvStep(1) \/ CallerTakes \/ Tick

LiveSpec == Init /\ [][LiveNext]_vars /\ WF_vars(Tick) /\ WF_vars(WatchdogStep(1))

\* As LiveSpec, and a main thread that is inside do_shutdown runs on: none of
\* do_shutdown's statements blocks.
FairSpec ==
    /\ Init /\ [][LiveNext]_vars
    /\ WF_vars(Tick) /\ WF_vars(WatchdogStep(1)) /\ WF_vars(ShutdownStep(1, "main"))

\* =====================================================================
\* Properties
\* =====================================================================

\* The process has passed the lock-acquisition step of main().
PastLock(p) == pc[p]["main"] \notin {"init", "flock", "sys_exit"}

\* Process p ends in this step.
Ends(p) == pc[p]["main"] # "init" /\ pc'[p]["main"] = "init"

\* C1: at most one process holds the instance lock at any time, and only a
\* process that holds it is past the lock-acquisition step of main(), for any
\* interleaving of starts, graceful shutdowns and abnormal terminations.
C1_SingleInstance ==
    /\ \A p, q \in Procs : locked[p] /\ locked[q] => p = q
    /\ \A p \in Procs : PastLock(p) => locked[p]

\* A process got the lock after an earlier holder had ended abnormally (its
\* socket file is still there), and another process has just been refused.
C1_Witness ==
    \E p, q \in Procs :
        /\ p # q
        /\ locked[p] /\ PastLock(p)
        /\ sockFile = Stale
        /\ pc[q]["main"] = "sys_exit"

\* C2: a process that is started while another one holds the lock changes
\* neither the socket file nor the PID file in any of its steps, goes from
\* the refused flock to sys.exit, and ends with status 0.
C2_SecondInstanceHarmless ==
    [][\A q \in Procs :
          (/\ \E p \in Procs \ {q} : locked[p]
           /\ pc[q] # pc'[q]
           /\ exitStatus' \notin {"signal", "killed"})
          => /\ UNCHANGED fsVars
             /\ pc[q]["main"] = "flock" => pc'[q]["main"] = "sys_exit"
             /\ pc[q]["main"] = "sys_exit" => Ends(q) /\ exitStatus' = "0"
             /\ ~locked'[q]]_vars

\* A second instance has just exited with status 0 while the first one is
\* shutting down with its socket file and PID file still in place.
C2_Witness ==
    \E p \in Procs :
        /\ locked[p]
        /\ shutdown_event[p]
        /\ sockFile = <<p>>
        /\ pidFile = [exists |-> TRUE, content |-> {p}]
        /\ exitStatus = "0"

\* The Ready state of the daemon: the socket is bound (and, one statement
\* later, listening), the main thread is on its way through the accept loop
\* and no trigger has begun the shutdown.
ReadyPcs == {"listen", "loop", "accept", "hc_stamp", "hc_recv", "hc_generate",
             "hc_gen", "hc_hung", "hc_send", "hc_error", "hc_close"}
ShutdownBegun(p) ==
    shutdown_event[p] \/ InShutdown(p, "main") \/ InShutdown(p, "wd")
Ready(p) ==
    /\ pc[p]["main"] \in ReadyPcs
    /\ server_socket[p] \in {"bound", "listening"}
    /\ ~ShutdownBegun(p)

\* The watchdog's do_shutdown has reached os._exit(0) and the socket file is
\* on disk: main() bound the socket after do_shutdown had found server_socket
\* None and unlinked the path.  (Reachable; the file outlives the process.)
SocketOutlivesShutdown ==
    \E p \in Procs : pc[p]["wd"] = "sd_exit" /\ sockFile = <<p>>

\* A shutdown of p has begun and a thread of p still has do_shutdown's unlink
\* of SOCKET_PATH ahead of it.
UnlinkAhead(p) ==
    \/ \E t \in Threads : pc[p][t] \in {"sd_set", "sd_close", "sd_unlink_sock"}
    \/ shutdown_event[p] /\ pc[p]["main"] \in {"loop", "accept", "final"}

\* C3: the socket file exists if and only if a daemon is in the Ready state:
\* a Ready daemon has its socket file on disk, and a living daemon has its
\* socket file on disk only while it is Ready.  Not counted against the
\* claim: a file whose creator has ended (it cannot be removed before the
\* restart does so), and the steps from a shutdown trigger to do_shutdown's
\* unlink.
C3_SocketIffReady ==
    \A p \in Procs :
        /\ Ready(p) => sockFile = <<p>>
        /\ sockFile = <<p>> => Ready(p) \/ UnlinkAhead(p)

\* C4: when a process that was sent a termination signal ends, the socket
\* file and the PID file are gone and the lock is free for a new instance.
C4_SignalCleansUp ==
    [][\A p \in Procs :
          (/\ Ends(p)
           /\ \/ exitStatus' = "signal"
              \/ "signal" \in causes[p] /\ exitStatus' # "killed")
          => /\ sockFile' = Absent
             /\ ~pidFile'.exists
             /\ \A q \in Procs : ~locked'[q]]_vars

\* C5: a process in which do_shutdown was invoked, by whichever triggers and
\* threads, ends with status 0 and leaves neither socket file nor PID file.
C5_ShutdownClean ==
    [][\A p \in Procs :
          (Ends(p) /\ causes[p] # {} /\ exitStatus' # "killed")
          => /\ exitStatus' = "0"
             /\ sockFile' = Absent
             /\ ~pidFile'.exists]_vars

\* C6: from the moment the idle watchdog has decided to shut down until the
\* process ends, at least IDLE_TIMEOUT has passed since the latest update of
\* last_request_time.
C6_IdleOnlyAfterTimeout ==
    \A p \in Procs :
        ("idle" \in causes[p] /\ InShutdown(p, "wd")) => elapsed[p] >= IDLE_TIMEOUT

IdlePcs == {"iw_loop", "iw_check", "iw_wait"}
ParentPcs == {"pw_start", "pw_loop", "pw_check", "pw_wait"}

\* The idle watchdog of p is running (in its loop or in the do_shutdown it
\* called) and IDLE_TIMEOUT has passed since the last request.
IdleDue(p) ==
    /\ pc[p]["wd"] \in IdlePcs \cup SdPcs
    /\ ~managed_mode[p]
    /\ elapsed[p] >= IDLE_TIMEOUT

\* C7: in default mode, once IDLE_TIMEOUT has passed without a request the
\* process ends, unless a new request is received first or another trigger
\* has set the shutdown flag and stopped the watchdog loop (LiveSpec: the
\* clock runs and the watchdog thread is scheduled fairly).
C7_IdleTerminates ==
    \A p \in Procs :
        IdleDue(p) ~> (\/ pc[p]["main"] = "init"
                       \/ elapsed[p] < IDLE_TIMEOUT
                       \/ pc[p]["wd"] = "done")

\* The idle watchdog found remaining <= 0 on a listening daemon, ran
\* do_shutdown and is about to call os._exit(0).
C7_Witness ==
    \E p \in Procs :
        /\ IdleDue(p)
        /\ "idle" \in causes[p]
        /\ pc[p]["wd"] = "sd_exit"
        /\ pc[p]["main"] = "accept"

\* C8: in managed mode the daemon is shutting down before more than one
\* polling interval has passed since os.getppid() left the recorded
\* parent_pid, and a watchdog that recorded an orphan's parent id (<= 1) is
\* in do_shutdown, never in the polling loop.
C8_ParentDeathDetected ==
    \A p \in Procs :
        /\ sinceChange[p] > PARENT_POLL => shutdown_event[p]
        /\ (parent_pid[p] # 0 /\ parent_pid[p] <= INIT_PID) => InShutdown(p, "wd")

\* The parent died right after a poll; the next poll, one full interval
\* later, has detected it and called do_shutdown.
C8_Witness ==
    \E p \in Procs :
        /\ managed_mode[p]
        /\ parent_pid[p] = SupervisorPid
        /\ sinceChange[p] = PARENT_POLL
        /\ "parent" \in causes[p]
        /\ InShutdown(p, "wd")

\* C9: the watchdog thread is the parent watchdog in managed mode and the
\* idle watchdog in default mode, it exists once main() is past
\* watchdog.start(), and do_shutdown is never invoked for inactivity in
\* managed mode nor for a parent change in default mode.
C9_WatchdogByMode ==
    \A p \in Procs :
        /\ pc[p]["wd"] \in IdlePcs => ~managed_mode[p]
        /\ pc[p]["wd"] \in ParentPcs => managed_mode[p]
        /\ pc[p]["main"] \in ReadyPcs \cup {"mk_socket", "bind"} => pc[p]["wd"] # "none"
        /\ managed_mode[p] => "idle" \notin causes[p]
        /\ PastLock(p) /\ ~managed_mode[p] => "parent" \notin causes[p]

\* A managed daemon that has been idle for IDLE_TIMEOUT is still serving, its
\* parent watchdog asleep between two polls.
C9_Witness ==
    \E p \in Procs :
        /\ managed_mode[p]
        /\ elapsed[p] >= IDLE_TIMEOUT
        /\ pc[p]["wd"] = "pw_wait"
        /\ pc[p]["main"] = "accept"
        /\ Ready(p)

\* C10: only the main thread is ever inside model.generate, and only while it
\* is in the warmup or in handle_client's generation (or in a signal handler
\* that interrupted one); at most one accepted connection is open, and none
\* is open when the accept loop tests its condition or calls accept().
C10_OneRequestAtATime ==
    \A p \in Procs :
        /\ gens[p] \subseteq {"main"}
        /\ gens[p] # {} => pc[p]["main"] \in {"warmup_gen", "hc_gen", "hc_hung"} \cup SdPcs
        /\ conns[p] <= 1
        /\ pc[p]["main"] \in {"loop", "accept", "final"} => conns[p] = 0

\* A request is being generated while the listen queue is full of clients.
C10_Witness ==
    \E p \in Procs :
        /\ pc[p]["main"] = "hc_gen"
        /\ gens[p] = {"main"}
        /\ conns[p] = 1
        /\ backlog[p] = BACKLOG

\* Positions of the main thread inside handle_client.
HcPcs == {"hc_stamp", "hc_recv", "hc_generate", "hc_gen", "hc_hung", "hc_send",
          "hc_error", "hc_close"}

\* The main thread of p takes a step of handle_client (not a jump into the
\* signal handler, not the end of the process).
HandleClientStep(p) ==
    /\ pc[p]["main"] \in HcPcs
    /\ pc'[p]["main"] # pc[p]["main"]
    /\ pc'[p]["main"] \notin {"init", "sd_set"}

\* C11: whatever a connection brings (read timeout, disconnect, malformed
\* JSON, generation error, failed response write), no step of handle_client
\* leaves the accept loop, sets the shutdown flag, invokes do_shutdown or
\* touches the listening socket: handle_client goes on to its next statement
\* or returns to the loop test, and a daemon that was Ready is Ready after it.
C11_FailuresContained ==
    [][\A p \in Procs :
          HandleClientStep(p)
          => /\ pc'[p]["main"] \in HcPcs \cup {"loop"}
             /\ shutdown_event'[p] = shutdown_event[p]
             /\ causes'[p] = causes[p]
             /\ server_socket'[p] = server_socket[p]
             /\ UNCHANGED fsVars
             /\ Ready(p) => Ready(p)']_vars

\* The connection before this one failed; this one was accepted, its request
\* read and generated, and the ok response written, the daemon being Ready.
C11_Witness ==
    \E p \in Procs :
        /\ lastFailed[p]
        /\ pc[p]["main"] = "hc_close"
        /\ sent[p] = <<"ok">>
        /\ Ready(p)

\* C12: handle_client passes at most one response to conn.sendall per
\* connection; when it is about to close the connection it has written
\* exactly one response if request data was received and none if the peer
\* sent nothing; a failed write is followed by no further write; and no
\* connection is open when the main thread is back in the accept loop.
C12_OneResponse ==
    \A p \in Procs :
        /\ Len(sent[p]) <= 1
        /\ pc[p]["main"] = "hc_close" /\ request[p] = "empty" => sent[p] = <<>>
        /\ pc[p]["main"] = "hc_close" /\ request[p] \in {"malformed", "request"}
              => Len(sent[p]) = 1
        /\ pc[p]["main"] \in {"loop", "accept", "final"} => conns[p] = 0

\* The main thread of p is inside handle_signal: the handler was entered and
\* the do_shutdown it called has not ended the process.
InHandler(p) == "signal" \in causes[p] /\ InShutdown(p, "main")

\* C13: the signal handler only sets the shutdown flag: no step the main
\* thread takes inside handle_signal closes the socket, removes the socket
\* file or the PID file, or ends the process.
C13_HandlerOnlySetsFlag ==
    [][\A p \in Procs :
          (InHandler(p) /\ pc'[p]["main"] # pc[p]["main"])
          => /\ pc'[p]["main"] \in SdPcs
                => server_socket'[p] = server_socket[p] /\ UNCHANGED fsVars
             /\ (pc[p]["main"] = "sd_exit" /\ pc[p]["wd"] # "sd_exit")
                => ~(Ends(p) /\ exitStatus' = "0")]_vars

\* C14: once the shutdown flag of a process is set it stays set until the
\* process has ended, and from then on the process does not bind the
\* listening socket, does not accept a connection and does not begin to
\* handle a request.
C14_NoReturnFromShutdown ==
    [][\A p \in Procs :
          (shutdown_event[p] /\ ~Ends(p))
          => /\ shutdown_event'[p]
             /\ sockFile # <<p>> => sockFile' # <<p>>
             /\ conns'[p] <= conns[p]
             /\ stamps'[p] <= stamps[p]]_vars

\* generate_audio of p is between its mkdtemp and its return or raise.
Generating(p) == locked[p] /\ "work" \in tmpDirs

\* A shutdown trigger has fired in p: a termination signal was received, or
\* a watchdog found its condition.
Triggered(p) == sigPending[p] \/ causes[p] \cap {"signal", "idle", "parent"} # {}

\* C15: a trigger that has fired while a request's generation is in progress
\* is followed by the end of the process, whether or not the generation ever
\* returns (FairSpec: the clock runs, the watchdog thread and do_shutdown on
\* the main thread are scheduled fairly).
C15_ShutdownDoesNotWait ==
    \A p \in Procs : (Generating(p) /\ Triggered(p)) ~> (pc[p]["main"] = "init")

\* C16: a process whose model is not loaded has no watchdog thread, no
\* socket and no socket file, and is outside the accept loop; a process whose
\* load_tts_model raised takes no further step but its end, with the socket
\* path still absent.
C16_LoadFailureFatal ==
    [][\A p \in Procs :
          /\ model[p] = "None"
                => /\ pc[p]["wd"] = "none"
                   /\ server_socket[p] = "None"
                   /\ sockFile # <<p>>
                   /\ pc[p]["main"] \notin ReadyPcs \cup {"warmup", "warmup_gen",
                                                        "start_wd", "mk_socket", "bind"}
          /\ pc[p]["main"] = "load_raise"
                => /\ model[p] = "None"
                   /\ sockFile = Absent /\ sockFile' = Absent
                   /\ pc'[p]["main"] # pc[p]["main"] => Ends(p)]_vars

\* load_tts_model has just raised in a process that holds the lock and has
\* written its PID file.
C16_Witness ==
    \E p \in Procs :
        /\ pc[p]["main"] = "load_raise"
        /\ model[p] = "None"
        /\ locked[p]
        /\ pidFile = [exists |-> TRUE, content |-> {p}]

\* C17: last_request_time is assigned at most once per connection, only by
\* the first statement of handle_client (the elapsed idle time returns to 0
\* there and nowhere else, so the time stamp never goes back), not at the
\* completion of a request, and not at all for a connection on which no
\* request data arrived.
C17_StampOnReceiptOnly ==
    [][\A p \in Procs :
          /\ stamps'[p] <= 1
          /\ (~Ends(p) /\ elapsed'[p] < elapsed[p]) => pc[p]["main"] = "hc_stamp"
          /\ stamps'[p] > stamps[p]
                => pc[p]["main"] = "hc_stamp" /\ pc'[p]["main"] = "hc_recv"
          /\ (pc[p]["main"] = "hc_close" /\ request[p] = "empty") => stamps[p] = 0]_vars

\* C18: a generation starts with a directory of its own that did not exist
\* before; a failed generation has removed its directory when handle_client
\* reports the error; an output directory handed to a client disappears only
\* when the client takes it, never by a step of a daemon process; and when
\* the startup purge is done no directory of an unfinished generation is left.
C18_TmpDirOwnership ==
    [][/\ \A p \in Procs :
             /\ pc[p]["main"] = "hc_generate" => "work" \notin tmpDirs
             /\ pc[p]["main"] = "hc_error" => "work" \notin tmpDirs
             /\ pc[p]["main"] = "install" => "orphan" \notin tmpDirs
       /\ ("out" \in tmpDirs /\ "out" \notin tmpDirs') => pc' = pc]_vars

\* C19: a step of a process that creates, truncates, writes or removes the
\* PID file, or binds or unlinks the socket path, is taken while that process
\* holds the instance lock; and a PID file whose content was written by a
\* process that is still running names the one holder of the lock.
C19_FilesUnderLock ==
    [][\A p \in Procs :
          /\ (pc'[p] # pc[p] /\ ~Ends(p) /\ fsVars' # fsVars)
                => locked[p] /\ locked'[p]
          /\ (pidFile.exists /\ pidFile.content = {p})
                => locked[p] /\ \A q \in Procs : locked[q] => q = p]_vars

\* The lock holder has written its PID file and bound the socket, and a
\* second process is at its flock call.
C19_Witness ==
    \E p, q \in Procs :
        /\ p # q
        /\ pidFile = [exists |-> TRUE, content |-> {p}]
        /\ sockFile = <<p>>
        /\ pc[q]["main"] = "flock"
        /\ locked[p]

\* C20: when the idle watchdog decides to shut down, the socket of the
\* process is bound and the main thread is not in handle_client with a
\* request it has received and not yet answered.
C20_IdleSparesWork ==
    [][\A p \in Procs :
          ("idle" \notin causes[p] /\ "idle" \in causes'[p])
          => /\ server_socket[p] \in {"bound", "listening"}
             /\ request[p] # "request"]_vars

====
